---- MODULE Spec2Model ----
(***************************************************************************)
(* TrackMate backend (src/backend/main.py): a FastAPI application whose    *)
(* handlers forward to the MLflow tracking store and to the OpenAI         *)
(* completion provider.                                                    *)
(*                                                                         *)
(* The model has one event loop thread (variable loop), a small set of     *)
(* client connections (Req) whose requests are handled as coroutines on    *)
(* that thread, the tracking store (exps, runs), MLflow's process-wide     *)
(* active-run stack (stack) and the environment's OPENAI_API_KEY (apiKey). *)
(* A handler is cut into steps at the points where the thread it runs on   *)
(* is inside a collaborator call and at its awaits.                        *)
(*                                                                         *)
(* The tracking store and the completion provider are libraries; they are  *)
(* modelled at the calls main.py makes, with the behaviour of the MLflow   *)
(* 1.x fluent API that main.py imports (mlflow.list_experiments exists     *)
(* only there): experiment names are unique and non-empty, a run belongs   *)
(* to one experiment, `with mlflow.start_run(...)` pushes the run on the   *)
(* active-run stack and ends it on exit (FINISHED, or FAILED when the body *)
(* raised), a parameter cannot be changed once logged, a metric reads back *)
(* as its latest logged value.  Every collaborator call may also fail      *)
(* (store or provider unreachable).                                        *)
(***************************************************************************)
EXTENDS Integers, Sequences, FiniteSets, TLC

\* ------------------------------------------------------------- bounds
\* Requests admitted in one behaviour, and runs the store may hold.
MaxRequests == 2
MaxRuns == 2

\* Client connections that may be open at the same time.
Req == {1, 2}

\* Inputs the clients draw from.
Names == {"", "exp1", "exp2"}
Keys == {"accuracy"}
ParamValues == {"x", "y"}
MetricValues == {"0.91", "0.92"}
Questions == {"why"}
ExperimentIds == 1..2
RunIds == 1..MaxRuns
Texts == {<<" ", "answer", "\n">>, <<"answer">>}

\* A key that was never logged.
NoValue == "-"

\* ------------------------------------------------------ result values
Ok(v) == [ok |-> TRUE, msg |-> "", val |-> v]
Err(m) == [ok |-> FALSE, msg |-> m, val |-> 0]

Unavailable == "tracking store unavailable"
ProviderDown == "completion provider unavailable"
NotConfigured == "OpenAI API key not configured."

\* ---------------------------------------------------- tracking store
EmptyParams == [k \in Keys |-> NoValue]
EmptyMetrics == [k \in Keys |-> NoValue]

NewRun(experiment_id) ==
    [experiment_id |-> experiment_id, status |-> "RUNNING",
     params |-> EmptyParams, metrics |-> EmptyMetrics]

\* mlflow.create_experiment(name): [res, exps']
StoreCreateExperiment(es, name) ==
    IF name = "" THEN [res |-> Err("Invalid experiment name"), exps |-> es]
    ELSE IF \E i \in 1..Len(es) : es[i].name = name
    THEN [res |-> Err("Experiment already exists"), exps |-> es]
    ELSE [res |-> Ok(Len(es) + 1),
          exps |-> Append(es, [experiment_id |-> Len(es) + 1, name |-> name])]

\* mlflow.list_experiments(): the experiments in the store's order
StoreListExperiments(es) == Ok(es)

\* mlflow.get_run(run_id): the run, whatever experiment it belongs to
StoreGetRun(rs, run_id) ==
    IF run_id \in 1..Len(rs)
    THEN Ok([run_id |-> run_id, experiment_id |-> rs[run_id].experiment_id,
             status |-> rs[run_id].status, params |-> rs[run_id].params,
             metrics |-> rs[run_id].metrics])
    ELSE Err("Run not found")

\* The rows of mlflow.search_runs(experiment_id), most recent run first.
RECURSIVE RowsFrom(_, _, _)
RowsFrom(rs, experiment_id, n) ==
    IF n = 0 THEN <<>>
    ELSE IF rs[n].experiment_id = experiment_id
    THEN <<[run_id |-> n, status |-> rs[n].status,
            metrics |-> rs[n].metrics, params |-> rs[n].params]>>
         \o RowsFrom(rs, experiment_id, n - 1)
    ELSE RowsFrom(rs, experiment_id, n - 1)

StoreSearchRuns(rs, experiment_id) == Ok(RowsFrom(rs, experiment_id, Len(rs)))

\* mlflow.start_run(experiment_id=...): creates a run and makes it active
StoreStartRun(es, rs, st, experiment_id) ==
    IF st # <<>> THEN [res |-> Err("Run already active"), runs |-> rs, stack |-> st]
    ELSE IF experiment_id \notin 1..Len(es)
    THEN [res |-> Err("Experiment not found"), runs |-> rs, stack |-> st]
    ELSE [res |-> Ok(Len(rs) + 1),
          runs |-> Append(rs, NewRun(experiment_id)),
          stack |-> <<Len(rs) + 1>> \o st]

\* mlflow.start_run(run_id=...): resumes a run and makes it active
StoreResumeRun(rs, st, run_id) ==
    IF st # <<>> THEN [res |-> Err("Run already active"), runs |-> rs, stack |-> st]
    ELSE IF run_id \notin 1..Len(rs)
    THEN [res |-> Err("Run not found"), runs |-> rs, stack |-> st]
    ELSE [res |-> Ok(run_id),
          runs |-> [rs EXCEPT ![run_id].status = "RUNNING"],
          stack |-> <<run_id>> \o st]

\* mlflow.log_param(key, value): logs to the active run; a logged
\* parameter keeps its value
StoreLogParam(rs, st, key, value) ==
    LET run == Head(st) IN
    IF rs[run].params[key] \notin {NoValue, value}
    THEN [res |-> Err("Changing param values is not allowed"), runs |-> rs]
    ELSE [res |-> Ok(run), runs |-> [rs EXCEPT ![run].params[key] = value]]

\* A store that keeps the first value logged for a metric key.
StoreLogMetricKeepFirst(rs, st, key, value) ==
    LET run == Head(st) IN
    [res |-> Ok(run),
     runs |-> IF rs[run].metrics[key] = NoValue
              THEN [rs EXCEPT ![run].metrics[key] = value] ELSE rs]

\* mlflow.log_metric(key, value): logs to the active run; the latest
\* value is the one read back
StoreLogMetric(rs, st, key, value) ==
    LET run == Head(st) IN
    [res |-> Ok(run), runs |-> [rs EXCEPT ![run].metrics[key] = value]]

\* ActiveRun.__exit__: mlflow.end_run(status) pops the active run
StoreEndRun(rs, st, status) ==
    [runs |-> [rs EXCEPT ![Head(st)].status = status], stack |-> Tail(st)]

\* ------------------------------------------------- prompt formatting
\* A string is the sequence of its pieces; concatenation is \o.
RECURSIVE FormatItems(_, _)
FormatItems(m, ks) ==
    IF ks = {} THEN <<>>
    ELSE LET k == CHOOSE x \in ks : TRUE
             rest == FormatItems(m, ks \ {k})
         IN IF m[k] = NoValue THEN rest
            ELSE <<"'", k, "': ", m[k]>> \o (IF rest = <<>> THEN <<>> ELSE <<", ">> \o rest)

\* str(mapping): the default string form of params / metrics
FormatMapping(m) == <<"{">> \o FormatItems(m, DOMAIN m) \o <<"}">>

ContextHeader == <<"Here is the current experiment and run data:\n">>

ExperimentLine(exp) ==
    <<"Experiment: ", exp.name, " (ID: ", ToString(exp.experiment_id), ")\n">>

RunLine(run) ==
    <<"  Run ID: ", ToString(run.run_id), ", Status: ", run.status, ", Metrics: ">>
    \o FormatMapping(run.metrics) \o <<", Parameters: ">>
    \o FormatMapping(run.params) \o <<"\n">>

\* The run lines appended last row first.
RECURSIVE AppendRunLinesReversed(_, _)
AppendRunLinesReversed(context, rows) ==
    IF rows = <<>> THEN context
    ELSE AppendRunLinesReversed(context, Tail(rows)) \o RunLine(Head(rows))

\* for run in experiment_runs.itertuples(): context += ...
RECURSIVE AppendRunLines(_, _)
AppendRunLines(context, rows) ==
    IF rows = <<>> THEN context
    ELSE AppendRunLines(context \o RunLine(Head(rows)), Tail(rows))

FullPrompt(context, prompt) == context \o <<"\nUser Query: ", prompt, "\nAnswer:">>

\* text.strip()
IsSpace(c) == c \in {" ", "\n", "\t"}
RECURSIVE LStrip(_)
LStrip(t) == IF t # <<>> /\ IsSpace(Head(t)) THEN LStrip(Tail(t)) ELSE t
RECURSIVE RStrip(_)
RStrip(t) ==
    IF t # <<>> /\ IsSpace(t[Len(t)]) THEN RStrip(SubSeq(t, 1, Len(t) - 1)) ELSE t
Strip(t) == RStrip(LStrip(t))

\* ------------------------------------------------------ HTTP results
Http200(body) == [status |-> 200, detail |-> "", body |-> body]
HTTPException(status_code, detail) ==
    [status |-> status_code, detail |-> detail, body |-> <<>>]
NoResponse == [status |-> 0, detail |-> "", body |-> <<>>]

\* An except clause that answers with a fixed detail.
CrudExceptGeneric(e) == HTTPException(400, "Bad Request")

\* except Exception as e: raise HTTPException(status_code=400, detail=str(e))
CrudExcept(e) == HTTPException(400, e)
\* except Exception as e: raise HTTPException(status_code=500, detail=str(e))
AssistantExcept(e) == HTTPException(500, e)

\* A dependency that hands on whatever the environment holds.
GetOpenaiApiKeyUnchecked(key) == [ok |-> TRUE, error |-> NoResponse]

\* get_openai_api_key: the key, or the configuration error
GetOpenaiApiKey(key) ==
    IF key = "" THEN [ok |-> FALSE, error |-> HTTPException(500, NotConfigured)]
    ELSE [ok |-> TRUE, error |-> NoResponse]

\* -------------------------------------------------------------- state
VARIABLES
    apiKey,     \* os.getenv("OPENAI_API_KEY"); "" when not configured
    exps,       \* tracking store: the experiments, in the store's order
    runs,       \* tracking store: the runs; a run's id is its index
    stack,      \* MLflow's process-wide stack of active runs
    loop,       \* the request whose code occupies the event loop thread, or 0
    rq,         \* per connection: the request being handled
    pc,         \* per connection: where its handler stands
    loc,        \* per connection: the handler's local variables
    resp,       \* per connection: the response produced
    calls,      \* per connection: the collaborator calls made for the request
    logged,     \* per run: the values of the latest successful log calls
    admitted    \* requests admitted so far

vars == <<apiKey, exps, runs, stack, loop, rq, pc, loc, resp, calls, logged, admitted>>

NoRequest ==
    [kind |-> "none", experiment_id |-> 0, run_id |-> 0, name |-> "",
     key |-> "", value |-> "", prompt |-> ""]

Request(kind) == [NoRequest EXCEPT !.kind = kind]

\* The requests a client may send: one shape per route of the application.
Requests ==
    {[Request("create_experiment") EXCEPT !.name = n] : n \in Names}
    \cup {Request("list_experiments")}
    \cup {[Request("start_run") EXCEPT !.experiment_id = e] : e \in ExperimentIds}
    \cup {[Request("log_param") EXCEPT !.run_id = x[1], !.key = x[2], !.value = x[3]] :
            x \in RunIds \X Keys \X ParamValues}
    \cup {[Request("log_metric") EXCEPT !.run_id = x[1], !.key = x[2], !.value = x[3]] :
            x \in RunIds \X Keys \X MetricValues}
    \cup {[Request("get_run") EXCEPT !.experiment_id = x[1], !.run_id = x[2]] :
            x \in ExperimentIds \X RunIds}
    \cup {[Request("assistant_query") EXCEPT !.prompt = q] : q \in Questions}

NoLocals ==
    [fut |-> Ok(0), experiments |-> <<>>, i |-> 0, context |-> <<>>, expected |-> <<>>]

Experiment(id, name) == [experiment_id |-> id, name |-> name]

StoredRun(experiment_id, status, param, metric) ==
    [experiment_id |-> experiment_id, status |-> status,
     params |-> [k \in Keys |-> param], metrics |-> [k \in Keys |-> metric]]

\* Contents the store may hold when the backend starts: each is what
\* earlier requests to this backend leave behind.
InitStores ==
    { [exps |-> <<>>, runs |-> <<>>],
      [exps |-> <<Experiment(1, "exp1")>>,
       runs |-> <<StoredRun(1, "FINISHED", "x", "0.91")>>],
      [exps |-> <<Experiment(1, "exp1"), Experiment(2, "exp2")>>,
       runs |-> <<StoredRun(2, "FINISHED", NoValue, NoValue),
                  StoredRun(2, "FAILED", "x", NoValue)>>] }

Logged(rs) == [x \in 1..Len(rs) |-> [params |-> rs[x].params, metrics |-> rs[x].metrics]]

Init ==
    /\ apiKey \in {"", "sk-key"}
    /\ \E s \in InitStores : exps = s.exps /\ runs = s.runs /\ logged = Logged(s.runs)
    /\ stack = <<>>
    /\ loop = 0
    /\ rq = [r \in Req |-> NoRequest]
    /\ pc = [r \in Req |-> "idle"]
    /\ loc = [r \in Req |-> NoLocals]
    /\ resp = [r \in Req |-> NoResponse]
    /\ calls = [r \in Req |-> <<>>]
    /\ admitted = 0

Call(op, arg, res) == [op |-> op, arg |-> arg, ok |-> res.ok, msg |-> res.msg, ret |-> res.val]

\* blocking_mlflow_call: run_in_executor hands the call to a pool thread
\* and the `with ThreadPoolExecutor()` block is left, which shuts the pool
\* down with wait=True on the calling thread: the event loop thread stays
\* in blocking_mlflow_call until the call has finished.
BlockingMlflowCall(r) == r

\* ------------------------------------------------------ the clients
PendingRuns == Cardinality({s \in Req : rq[s].kind = "start_run" /\ pc[s] # "done"})

Arrive(r) ==
    /\ pc[r] = "idle"
    /\ admitted < MaxRequests
    /\ \E q \in Requests :
          /\ q.kind = "start_run" => Len(runs) + PendingRuns < MaxRuns
          /\ rq' = [rq EXCEPT ![r] = q]
    /\ pc' = [pc EXCEPT ![r] = "ready"]
    /\ admitted' = admitted + 1
    /\ UNCHANGED <<apiKey, exps, runs, stack, loop, loc, resp, calls, logged>>

\* The response has been sent; the connection takes the next request.
Retire(r) ==
    /\ pc[r] = "done"
    /\ pc' = [pc EXCEPT ![r] = "idle"]
    /\ rq' = [rq EXCEPT ![r] = NoRequest]
    /\ loc' = [loc EXCEPT ![r] = NoLocals]
    /\ resp' = [resp EXCEPT ![r] = NoResponse]
    /\ calls' = [calls EXCEPT ![r] = <<>>]
    /\ UNCHANGED <<apiKey, exps, runs, stack, loop, logged, admitted>>

\* A handler starts, or resumes after an await, when the event loop
\* thread is free.
Starts(r, kind) == pc[r] = "ready" /\ rq[r].kind = kind /\ loop = 0

\* ------------------------------------------------- POST /experiments/
CreateExperimentCall(r) ==
    /\ Starts(r, "create_experiment")
    /\ loop' = BlockingMlflowCall(r)
    /\ pc' = [pc EXCEPT ![r] = "call"]
    /\ UNCHANGED <<apiKey, exps, runs, stack, rq, loc, resp, calls, logged, admitted>>

CreateExperimentWork(r) ==
    /\ pc[r] = "call" /\ rq[r].kind = "create_experiment"
    /\ \E fails \in BOOLEAN :
          LET out == IF fails THEN [res |-> Err(Unavailable), exps |-> exps]
                     ELSE StoreCreateExperiment(exps, rq[r].name) IN
          /\ exps' = out.exps
          /\ loc' = [loc EXCEPT ![r].fut = out.res]
          /\ calls' = [calls EXCEPT ![r] = Append(@, Call("create_experiment", rq[r].name, out.res))]
    /\ loop' = 0
    /\ pc' = [pc EXCEPT ![r] = "await"]
    /\ UNCHANGED <<apiKey, runs, stack, rq, resp, logged, admitted>>

CreateExperimentReturn(r) ==
    /\ pc[r] = "await" /\ rq[r].kind = "create_experiment" /\ loop = 0
    /\ resp' = [resp EXCEPT ![r] =
                  IF loc[r].fut.ok
                  THEN Http200([experiment_id |-> loc[r].fut.val, name |-> rq[r].name])
                  ELSE CrudExcept(loc[r].fut.msg)]
    /\ pc' = [pc EXCEPT ![r] = "done"]
    /\ UNCHANGED <<apiKey, exps, runs, stack, loop, rq, loc, calls, logged, admitted>>

\* -------------------------------------------------- GET /experiments/
ListExperimentsCall(r) ==
    /\ Starts(r, "list_experiments")
    /\ loop' = BlockingMlflowCall(r)
    /\ pc' = [pc EXCEPT ![r] = "call"]
    /\ UNCHANGED <<apiKey, exps, runs, stack, rq, loc, resp, calls, logged, admitted>>

ListExperimentsWork(r) ==
    /\ pc[r] = "call" /\ rq[r].kind = "list_experiments"
    /\ \E fails \in BOOLEAN :
          LET res == IF fails THEN Err(Unavailable) ELSE StoreListExperiments(exps) IN
          /\ loc' = [loc EXCEPT ![r].fut = res]
          /\ calls' = [calls EXCEPT ![r] = Append(@, Call("list_experiments", <<>>, res))]
    /\ loop' = 0
    /\ pc' = [pc EXCEPT ![r] = "await"]
    /\ UNCHANGED <<apiKey, exps, runs, stack, rq, resp, logged, admitted>>

ListExperimentsReturn(r) ==
    /\ pc[r] = "await" /\ rq[r].kind = "list_experiments" /\ loop = 0
    /\ resp' = [resp EXCEPT ![r] =
                  IF loc[r].fut.ok
                  THEN Http200([experiments |-> loc[r].fut.val])
                  ELSE CrudExcept(loc[r].fut.msg)]
    /\ pc' = [pc EXCEPT ![r] = "done"]
    /\ UNCHANGED <<apiKey, exps, runs, stack, loop, rq, loc, calls, logged, admitted>>

\* ----------------------- GET /experiments/{experiment_id}/runs/{run_id}/
GetRunCall(r) ==
    /\ Starts(r, "get_run")
    /\ loop' = BlockingMlflowCall(r)
    /\ pc' = [pc EXCEPT ![r] = "call"]
    /\ UNCHANGED <<apiKey, exps, runs, stack, rq, loc, resp, calls, logged, admitted>>

GetRunWork(r) ==
    /\ pc[r] = "call" /\ rq[r].kind = "get_run"
    /\ \E fails \in BOOLEAN :
          LET res == IF fails THEN Err(Unavailable) ELSE StoreGetRun(runs, rq[r].run_id) IN
          /\ loc' = [loc EXCEPT ![r].fut = res,
                                ![r].expected = IF res.ok THEN logged[rq[r].run_id] ELSE <<>>]
          /\ calls' = [calls EXCEPT ![r] = Append(@, Call("get_run", rq[r].run_id, res))]
    /\ loop' = 0
    /\ pc' = [pc EXCEPT ![r] = "await"]
    /\ UNCHANGED <<apiKey, exps, runs, stack, rq, resp, logged, admitted>>

\* run_data: the fields of the run the store returned
RunData(run) ==
    [run_id |-> run.run_id, experiment_id |-> run.experiment_id, status |-> run.status,
     parameters |-> run.params, metrics |-> run.metrics]

GetRunReturn(r) ==
    /\ pc[r] = "await" /\ rq[r].kind = "get_run" /\ loop = 0
    /\ resp' = [resp EXCEPT ![r] =
                  IF loc[r].fut.ok
                  THEN Http200([run |-> RunData(loc[r].fut.val)])
                  ELSE CrudExcept(loc[r].fut.msg)]
    /\ pc' = [pc EXCEPT ![r] = "done"]
    /\ UNCHANGED <<apiKey, exps, runs, stack, loop, rq, loc, calls, logged, admitted>>

\* A block that ends the run only when its body did not raise.
ExitRunUnlessRaised(rs, st, raised) ==
    IF raised THEN [runs |-> rs, stack |-> st] ELSE StoreEndRun(rs, st, "FINISHED")

\* with mlflow.start_run(...): leaving the block ends the run, FAILED
\* when the block raised and FINISHED otherwise.
ExitRun(rs, st, raised) == StoreEndRun(rs, st, IF raised THEN "FAILED" ELSE "FINISHED")

\* ----------------------------- POST /experiments/{experiment_id}/runs/
\* The handler has no await: it runs on the event loop thread from its
\* first line to its response.
StartRunCall(r) ==
    /\ Starts(r, "start_run")
    /\ loop' = r
    /\ pc' = [pc EXCEPT ![r] = "call"]
    /\ UNCHANGED <<apiKey, exps, runs, stack, rq, loc, resp, calls, logged, admitted>>

StartRunEnter(r) ==
    /\ pc[r] = "call" /\ rq[r].kind = "start_run"
    /\ \E fails \in BOOLEAN :
          LET out == IF fails THEN [res |-> Err(Unavailable), runs |-> runs, stack |-> stack]
                     ELSE StoreStartRun(exps, runs, stack, rq[r].experiment_id) IN
          /\ runs' = out.runs
          /\ stack' = out.stack
          /\ logged' = IF out.res.ok
                       THEN Append(logged, [params |-> EmptyParams, metrics |-> EmptyMetrics])
                       ELSE logged
          /\ calls' = [calls EXCEPT ![r] = Append(@, Call("start_run", rq[r].experiment_id, out.res))]
          /\ loc' = [loc EXCEPT ![r].fut = out.res]
          /\ IF out.res.ok
             THEN /\ pc' = [pc EXCEPT ![r] = "with"]
                  /\ UNCHANGED <<loop, resp>>
             ELSE /\ pc' = [pc EXCEPT ![r] = "done"]
                  /\ resp' = [resp EXCEPT ![r] = CrudExcept(out.res.msg)]
                  /\ loop' = 0
    /\ UNCHANGED <<apiKey, exps, rq, admitted>>

StartRunReturn(r) ==
    /\ pc[r] = "with" /\ rq[r].kind = "start_run"
    /\ LET active_run == loc[r].fut.val
           out == ExitRun(runs, stack, FALSE) IN
       /\ resp' = [resp EXCEPT ![r] =
                     Http200([run_id |-> active_run, status |-> runs[active_run].status])]
       /\ runs' = out.runs
       /\ stack' = out.stack
    /\ loop' = 0
    /\ pc' = [pc EXCEPT ![r] = "done"]
    /\ UNCHANGED <<apiKey, exps, rq, loc, calls, logged, admitted>>

\* ------------------------------------------ POST /runs/{run_id}/params/
Message(what, key) == [message |-> <<what, " '", key, "' logged successfully.">>]

\* with mlflow.start_run(run_id=run_id): shared by the two log handlers
EnterRun(r, kind) ==
    /\ pc[r] = "call" /\ rq[r].kind = kind
    /\ \E fails \in BOOLEAN :
          LET out == IF fails THEN [res |-> Err(Unavailable), runs |-> runs, stack |-> stack]
                     ELSE StoreResumeRun(runs, stack, rq[r].run_id) IN
          /\ runs' = out.runs
          /\ stack' = out.stack
          /\ calls' = [calls EXCEPT ![r] = Append(@, Call("start_run", rq[r].run_id, out.res))]
          /\ loc' = [loc EXCEPT ![r].fut = out.res]
          /\ IF out.res.ok
             THEN /\ pc' = [pc EXCEPT ![r] = "with"]
                  /\ UNCHANGED <<loop, resp>>
             ELSE /\ pc' = [pc EXCEPT ![r] = "done"]
                  /\ resp' = [resp EXCEPT ![r] = CrudExcept(out.res.msg)]
                  /\ loop' = 0
    /\ UNCHANGED <<apiKey, exps, rq, logged, admitted>>

LogParamCall(r) ==
    /\ Starts(r, "log_param")
    /\ loop' = r
    /\ pc' = [pc EXCEPT ![r] = "call"]
    /\ UNCHANGED <<apiKey, exps, runs, stack, rq, loc, resp, calls, logged, admitted>>

LogParamEnter(r) == EnterRun(r, "log_param")

LogParamBody(r) ==
    /\ pc[r] = "with" /\ rq[r].kind = "log_param"
    /\ \E fails \in BOOLEAN :
          LET out == IF fails THEN [res |-> Err(Unavailable), runs |-> runs]
                     ELSE StoreLogParam(runs, stack, rq[r].key, rq[r].value)
              arg == [run |-> Head(stack), key |-> rq[r].key, value |-> rq[r].value,
                      prev |-> runs[Head(stack)].params[rq[r].key]]
              exit == ExitRun(out.runs, stack, ~out.res.ok) IN
          /\ runs' = exit.runs
          /\ stack' = exit.stack
          /\ calls' = [calls EXCEPT ![r] = Append(@, Call("log_param", arg, out.res))]
          /\ loc' = [loc EXCEPT ![r].fut = out.res]
          /\ resp' = [resp EXCEPT ![r] =
                        IF out.res.ok THEN Http200(Message("Parameter", rq[r].key))
                        ELSE CrudExcept(out.res.msg)]
          /\ logged' = IF out.res.ok
                       THEN [logged EXCEPT ![rq[r].run_id].params[rq[r].key] = rq[r].value]
                       ELSE logged
    /\ loop' = 0
    /\ pc' = [pc EXCEPT ![r] = "done"]
    /\ UNCHANGED <<apiKey, exps, rq, admitted>>

\* ----------------------------------------- POST /runs/{run_id}/metrics/
LogMetricCall(r) ==
    /\ Starts(r, "log_metric")
    /\ loop' = r
    /\ pc' = [pc EXCEPT ![r] = "call"]
    /\ UNCHANGED <<apiKey, exps, runs, stack, rq, loc, resp, calls, logged, admitted>>

LogMetricEnter(r) == EnterRun(r, "log_metric")

LogMetricBody(r) ==
    /\ pc[r] = "with" /\ rq[r].kind = "log_metric"
    /\ \E fails \in BOOLEAN :
          LET out == IF fails THEN [res |-> Err(Unavailable), runs |-> runs]
                     ELSE StoreLogMetric(runs, stack, rq[r].key, rq[r].value)
              arg == [run |-> Head(stack), key |-> rq[r].key, value |-> rq[r].value,
                      prev |-> runs[Head(stack)].metrics[rq[r].key]]
              exit == ExitRun(out.runs, stack, ~out.res.ok) IN
          /\ runs' = exit.runs
          /\ stack' = exit.stack
          /\ calls' = [calls EXCEPT ![r] = Append(@, Call("log_metric", arg, out.res))]
          /\ loc' = [loc EXCEPT ![r].fut = out.res]
          /\ resp' = [resp EXCEPT ![r] =
                        IF out.res.ok THEN Http200(Message("Metric", rq[r].key))
                        ELSE CrudExcept(out.res.msg)]
          /\ logged' = IF out.res.ok
                       THEN [logged EXCEPT ![rq[r].run_id].metrics[rq[r].key] = rq[r].value]
                       ELSE logged
    /\ loop' = 0
    /\ pc' = [pc EXCEPT ![r] = "done"]
    /\ UNCHANGED <<apiKey, exps, rq, admitted>>

\* ------------------------------------------------ POST /assistant/query
\* The iteration of `for exp in experiments` that starts at experiment i:
\* with an experiment left, its header line is appended and its runs are
\* asked for; with none left, the prompt is complete and is sent.
AssistantNext(r, experiments, i, context) ==
    IF i <= Len(experiments)
    THEN /\ loc' = [loc EXCEPT ![r].experiments = experiments, ![r].i = i,
                               ![r].context = context \o ExperimentLine(experiments[i])]
         /\ pc' = [pc EXCEPT ![r] = "call_search"]
    ELSE /\ loc' = [loc EXCEPT ![r].experiments = experiments, ![r].i = i,
                               ![r].context = FullPrompt(context, rq[r].prompt)]
         /\ pc' = [pc EXCEPT ![r] = "call_complete"]

\* Depends(get_openai_api_key), then the first line of the handler.
AssistantQueryCall(r) ==
    /\ Starts(r, "assistant_query")
    /\ LET api_key == GetOpenaiApiKey(apiKey) IN
       IF api_key.ok
       THEN /\ loop' = BlockingMlflowCall(r)
            /\ pc' = [pc EXCEPT ![r] = "call_list"]
            /\ UNCHANGED resp
       ELSE /\ resp' = [resp EXCEPT ![r] = api_key.error]
            /\ pc' = [pc EXCEPT ![r] = "done"]
            /\ UNCHANGED loop
    /\ UNCHANGED <<apiKey, exps, runs, stack, rq, loc, calls, logged, admitted>>

AssistantListWork(r) ==
    /\ pc[r] = "call_list"
    /\ \E fails \in BOOLEAN :
          LET res == IF fails THEN Err(Unavailable) ELSE StoreListExperiments(exps) IN
          /\ loc' = [loc EXCEPT ![r].fut = res]
          /\ calls' = [calls EXCEPT ![r] = Append(@, Call("list_experiments", <<>>, res))]
    /\ loop' = 0
    /\ pc' = [pc EXCEPT ![r] = "await_list"]
    /\ UNCHANGED <<apiKey, exps, runs, stack, rq, resp, logged, admitted>>

AssistantAfterList(r) ==
    /\ pc[r] = "await_list" /\ loop = 0
    /\ IF loc[r].fut.ok
       THEN /\ AssistantNext(r, loc[r].fut.val, 1, ContextHeader)
            /\ loop' = BlockingMlflowCall(r)
            /\ UNCHANGED resp
       ELSE /\ resp' = [resp EXCEPT ![r] = AssistantExcept(loc[r].fut.msg)]
            /\ pc' = [pc EXCEPT ![r] = "done"]
            /\ UNCHANGED <<loop, loc>>
    /\ UNCHANGED <<apiKey, exps, runs, stack, rq, calls, logged, admitted>>

AssistantSearchWork(r) ==
    /\ pc[r] = "call_search"
    /\ \E fails \in BOOLEAN :
          LET experiment_id == loc[r].experiments[loc[r].i].experiment_id
              res == IF fails THEN Err(Unavailable) ELSE StoreSearchRuns(runs, experiment_id) IN
          /\ loc' = [loc EXCEPT ![r].fut = res]
          /\ calls' = [calls EXCEPT ![r] = Append(@, Call("search_runs", experiment_id, res))]
    /\ loop' = 0
    /\ pc' = [pc EXCEPT ![r] = "await_search"]
    /\ UNCHANGED <<apiKey, exps, runs, stack, rq, resp, logged, admitted>>

\* A handler that asks the store again when search_runs failed.
SearchRetried(r) ==
    /\ pc' = [pc EXCEPT ![r] = "call_search"]
    /\ loop' = BlockingMlflowCall(r)
    /\ UNCHANGED <<resp, loc>>

\* A failed search_runs raises at the await: the except clause answers.
SearchRaised(r) ==
    /\ resp' = [resp EXCEPT ![r] = AssistantExcept(loc[r].fut.msg)]
    /\ pc' = [pc EXCEPT ![r] = "done"]
    /\ UNCHANGED <<loop, loc>>

AssistantAfterSearch(r) ==
    /\ pc[r] = "await_search" /\ loop = 0
    /\ IF loc[r].fut.ok
       THEN /\ AssistantNext(r, loc[r].experiments, loc[r].i + 1,
                             AppendRunLines(loc[r].context, loc[r].fut.val))
            /\ loop' = BlockingMlflowCall(r)
            /\ UNCHANGED resp
       ELSE SearchRaised(r)
    /\ UNCHANGED <<apiKey, exps, runs, stack, rq, calls, logged, admitted>>

\* openai.Completion.create(prompt=full_prompt, ...)
AssistantCompleteWork(r) ==
    /\ pc[r] = "call_complete"
    /\ \E fails \in BOOLEAN, text \in Texts :
          LET res == IF fails THEN Err(ProviderDown) ELSE Ok(text) IN
          /\ loc' = [loc EXCEPT ![r].fut = res]
          /\ calls' = [calls EXCEPT ![r] = Append(@, Call("complete", loc[r].context, res))]
    /\ loop' = 0
    /\ pc' = [pc EXCEPT ![r] = "await_complete"]
    /\ UNCHANGED <<apiKey, exps, runs, stack, rq, resp, logged, admitted>>

AssistantQueryReturn(r) ==
    /\ pc[r] = "await_complete" /\ loop = 0
    /\ resp' = [resp EXCEPT ![r] =
                  IF loc[r].fut.ok
                  THEN Http200([response |-> Strip(loc[r].fut.val)])
                  ELSE AssistantExcept(loc[r].fut.msg)]
    /\ pc' = [pc EXCEPT ![r] = "done"]
    /\ UNCHANGED <<apiKey, exps, runs, stack, loop, rq, loc, calls, logged, admitted>>

\* ------------------------------------------------------ specification
Next ==
    \E r \in Req :
       \/ Arrive(r)
       \/ Retire(r)
       \/ CreateExperimentCall(r)
       \/ CreateExperimentWork(r)
       \/ CreateExperimentReturn(r)
       \/ ListExperimentsCall(r)
       \/ ListExperimentsWork(r)
       \/ ListExperimentsReturn(r)
       \/ StartRunCall(r)
       \/ StartRunEnter(r)
       \/ StartRunReturn(r)
       \/ LogParamCall(r)
       \/ LogParamEnter(r)
       \/ LogParamBody(r)
       \/ LogMetricCall(r)
       \/ LogMetricEnter(r)
       \/ LogMetricBody(r)
       \/ GetRunCall(r)
       \/ GetRunWork(r)
       \/ GetRunReturn(r)
       \/ AssistantQueryCall(r)
       \/ AssistantListWork(r)
       \/ AssistantAfterList(r)
       \/ AssistantSearchWork(r)
       \/ AssistantAfterSearch(r)
       \/ AssistantCompleteWork(r)
       \/ AssistantQueryReturn(r)

Spec == Init /\ [][Next]_vars

TypeOK ==
    /\ loop \in Req \cup {0}
    /\ Len(runs) <= MaxRuns
    /\ Len(logged) = Len(runs)
    /\ admitted \in 0..MaxRequests

\* ========================================================== properties
Done(r, kind) == pc[r] = "done" /\ rq[r].kind = kind

Entries(r, ops) == {i \in 1..Len(calls[r]) : calls[r][i].op \in ops}

StoreOps == {"create_experiment", "list_experiments", "start_run", "log_param",
             "log_metric", "get_run", "search_runs"}

LogOps == {"log_param", "log_metric"}

\* A collaborator call of r is in flight.
InFlight(r) == pc[r] \in {"call", "with", "call_list", "call_search", "call_complete"}

\* ------------------------------------------------------------------ C1
\* C1: with no completion credential configured, every assistant request
\* ends with the configuration error (status 500), and neither the
\* tracking store nor the completion provider is called for it.
C1_UnconfiguredFailsBeforeAnyCall ==
    apiKey = "" =>
        \A r \in Req : rq[r].kind = "assistant_query" =>
            /\ calls[r] = <<>>
            /\ pc[r] \in {"ready", "done"}
            /\ pc[r] = "done" => resp[r] = [status |-> 500, detail |-> NotConfigured, body |-> <<>>]

C1_Witness ==
    \E r \in Req : apiKey = "" /\ Done(r, "assistant_query") /\ resp[r].status = 500
                   /\ exps # <<>>

\* ------------------------------------------------------------------ C2
\* C2: while one request's collaborator call is in flight, the handler of
\* another request that is ready to start can start: the event loop
\* thread is not held by the request that waits for its call.
C2_SlowCallLeavesLoopFree ==
    \A r, s \in Req : (r # s /\ InFlight(r) /\ pc[s] = "ready") => loop = 0

\* ------------------------------------------------------------------ C3
\* C3: GetRun answers with a run only when the run exists, the experiment
\* exists and the run belongs to the experiment of the request; a request
\* with an unknown or mismatched id fails with a 400.
C3_GetRunChecksExperiment ==
    \A r \in Req : Done(r, "get_run") =>
        /\ resp[r].status \in {200, 400}
        /\ resp[r].status = 200 =>
              /\ rq[r].run_id \in 1..Len(runs)
              /\ rq[r].experiment_id \in 1..Len(exps)
              /\ runs[rq[r].run_id].experiment_id = rq[r].experiment_id
              /\ resp[r].body.run.experiment_id = rq[r].experiment_id

\* ------------------------------------------------------------------ C4
\* C4: the prompt sent to the completion provider is the header line,
\* then for each experiment the store's list call returned, in that
\* order, its "Experiment: {name} (ID: {id})" line followed by one line
\* per run the store returned for it, in that order, then the
\* "User Query: ... Answer:" suffix; with no experiment it is the header
\* followed by the suffix.
C4_RunText(run) ==
    <<"  Run ID: ", ToString(run.run_id), ", Status: ", run.status, ", Metrics: ", "{">>
    \o (IF run.metrics["accuracy"] = NoValue THEN <<>>
        ELSE <<"'", "accuracy", "': ", run.metrics["accuracy"]>>)
    \o <<"}", ", Parameters: ", "{">>
    \o (IF run.params["accuracy"] = NoValue THEN <<>>
        ELSE <<"'", "accuracy", "': ", run.params["accuracy"]>>)
    \o <<"}", "\n">>

RECURSIVE C4_RunsText(_, _)
C4_RunsText(rows, j) ==
    IF j > Len(rows) THEN <<>> ELSE C4_RunText(rows[j]) \o C4_RunsText(rows, j + 1)

\* The text of experiments j.. of the list call cs[1]; the runs of
\* experiment j are what the call cs[1 + j] returned.
RECURSIVE C4_ExperimentsText(_, _)
C4_ExperimentsText(cs, j) ==
    IF j > Len(cs[1].ret) THEN <<>>
    ELSE <<"Experiment: ", cs[1].ret[j].name, " (ID: ", ToString(cs[1].ret[j].experiment_id), ")\n">>
         \o C4_RunsText(cs[1 + j].ret, 1)
         \o C4_ExperimentsText(cs, j + 1)

C4_ExpectedPrompt(cs, question) ==
    <<"Here is the current experiment and run data:\n">>
    \o C4_ExperimentsText(cs, 1)
    \o <<"\nUser Query: ", question, "\nAnswer:">>

C7_ReadsLatestSuccessfulLog ==
    /\ \A x \in 1..Len(runs) : /\ runs[x].params = logged[x].params
                               /\ runs[x].metrics = logged[x].metrics
    /\ \A r \in Req : (Done(r, "get_run") /\ resp[r].status = 200) =>
          /\ resp[r].body.run.parameters = loc[r].expected.params
          /\ resp[r].body.run.metrics = loc[r].expected.metrics

C8_StartedRunIsRunning ==
    \A r \in Req : Done(r, "start_run") =>
        IF resp[r].status = 200
        THEN /\ resp[r].body.status = "RUNNING"
             /\ runs[resp[r].body.run_id].status = "RUNNING"
        ELSE \A i \in Entries(r, {"start_run"}) : ~calls[r][i].ok

\* ------------------------------------------------------------------ C9
\* C9: CreateExperiment with an empty name is rejected before the
\* tracking store's create call is made, and creates no experiment.
C9_EmptyNameRejectedAtBoundary ==
    \A r \in Req : (rq[r].kind = "create_experiment" /\ rq[r].name = "") =>
        /\ calls[r] = <<>>
        /\ pc[r] = "done" => resp[r].status # 200

\* ----------------------------------------------------------------- C10
\* C10: no run is left active across requests: whenever the event loop
\* thread is between handlers the active-run stack is empty, also after a
\* log call that failed; while a handler is inside its `with` block the
\* thread is its own and the stack holds its run alone; and a log call
\* lands in the run its request names.
C10_NoRunLeftActive ==
    /\ loop = 0 => stack = <<>>
    /\ \A r \in Req : pc[r] = "with" => (loop = r /\ stack = <<loc[r].fut.val>>)
    /\ \A r \in Req : \A i \in Entries(r, LogOps) : calls[r][i].arg.run = rq[r].run_id

C10_Witness ==
    \E r \in Req : /\ Done(r, "log_param")
                   /\ \E i \in Entries(r, {"log_param"}) : ~calls[r][i].ok
                   /\ loop = 0 /\ stack = <<>>
                   /\ runs[rq[r].run_id].status = "FAILED"
                   /\ \E s \in Req : s # r /\ pc[s] = "ready"

====
